---- MODULE Spec2Model ----
(***************************************************************************)
(* Host / guest decryption-proof pipeline of zkFHE-Decryption-Proof.       *)
(*   host : src/decryption-proof/host/src/main.rs                          *)
(*   guest: src/decryption-proof/methods/guest/src/main.rs                 *)
(* u64 values are kept at their full width, as four 16-bit limbs, since    *)
(* TLC integers are 32 bits wide.                                          *)
(***************************************************************************)
EXTENDS Integers, Sequences, FiniteSets, TLC

\* ------------------------------------------------------------------------
\* u64 arithmetic (wrapping, as Rust's u64 in the operations the code uses).
\* A u64 is four 16-bit limbs <<w1, w2, w3, w4>>, w1 the most significant.
\* ------------------------------------------------------------------------

\* Width of the scalar type: u64 on both sides.
ScalarBits == 64

\* Bits of a limb.
LimbBits == 16

LimbCount == ScalarBits \div LimbBits

LimbBase == 2 ^ LimbBits

Idx == 1..LimbCount

U64Zero == [i \in Idx |-> 0]

\* Limb i of x, zero outside the word.
Limb(x, i) == IF i \in Idx THEN x[i] ELSE 0

\* A small natural (below 2^30) as a u64 literal such as 3u64 or 6.
FromNat(n) ==
  [i \in Idx |-> IF i = LimbCount THEN n % LimbBase
                 ELSE IF i = LimbCount - 1 THEN n \div LimbBase
                 ELSE 0]

\* A u64 known to be small (below 2^30) as a natural, e.g. `x as usize`.
ToNat(x) == (x[LimbCount - 1] % (2 ^ 14)) * LimbBase + x[LimbCount]

\* x >> k
Shr(x, k) ==
  LET q == k \div LimbBits
      r == k % LimbBits
  IN  [i \in Idx |-> ((Limb(x, i - q) \div (2 ^ r))
                      + Limb(x, i - q - 1) * (2 ^ (LimbBits - r))) % LimbBase]

\* x << k (bits shifted out are lost)
Shl(x, k) ==
  LET q == k \div LimbBits
      r == k % LimbBits
  IN  [i \in Idx |-> (Limb(x, i + q) * (2 ^ r)
                      + (Limb(x, i + q + 1) \div (2 ^ (LimbBits - r)))) % LimbBase]

\* a & b on naturals below 2^n
RECURSIVE AndNat(_, _, _)
AndNat(a, b, n) ==
  IF n = 0 THEN 0
  ELSE (a % 2) * (b % 2) + 2 * AndNat(a \div 2, b \div 2, n - 1)

\* x & y
BitAnd(x, y) == [i \in Idx |-> AndNat(x[i], y[i], LimbBits)]

\* !x
BitNot(x) == [i \in Idx |-> LimbBase - 1 - x[i]]

\* Carry out of limb i (and of all less significant limbs) of x + y.
RECURSIVE CarryOut(_, _, _)
CarryOut(x, y, i) ==
  IF i > LimbCount THEN 0
  ELSE (x[i] + y[i] + CarryOut(x, y, i + 1)) \div LimbBase

\* x.wrapping_add(y): the carry out of the most significant limb is dropped.
WrappingAdd(x, y) ==
  [i \in Idx |-> (x[i] + y[i] + CarryOut(x, y, i + 1)) % LimbBase]

\* x.wrapping_neg()
WrappingNeg(x) == WrappingAdd(BitNot(x), FromNat(1))

\* x.wrapping_sub(y)
WrappingSub(x, y) == WrappingAdd(x, WrappingNeg(y))

\* x.wrapping_mul(n) for a small natural n: double and add.
RECURSIVE WrappingMulNat(_, _)
WrappingMulNat(n, x) ==
  IF n = 0 THEN U64Zero
  ELSE LET half == Shl(WrappingMulNat(n \div 2, x), 1)
       IN  IF n % 2 = 1 THEN WrappingAdd(half, x) ELSE half

\* Trailing zero bits of a natural below 2^n (n when it is zero).
RECURSIVE TrailingZerosNat(_, _)
TrailingZerosNat(a, n) ==
  IF n = 0 \/ a % 2 = 1 THEN 0 ELSE 1 + TrailingZerosNat(a \div 2, n - 1)

\* x.trailing_zeros()
RECURSIVE TrailingZerosFrom(_, _)
TrailingZerosFrom(x, i) ==
  IF i = 0 THEN 0
  ELSE IF x[i] # 0 THEN TrailingZerosNat(x[i], LimbBits)
  ELSE LimbBits + TrailingZerosFrom(x, i - 1)

TrailingZeros(x) == TrailingZerosFrom(x, LimbCount)

\* x / d for the divisors the code uses, which are powers of two
\* (message_modulus = 1 << 4, delta = (1 << 63) / message_modulus).
DivPow2(x, d) == Shr(x, TrailingZeros(d))

\* x < y as unsigned integers.
RECURSIVE LessFrom(_, _, _)
LessFrom(x, y, i) ==
  IF i > LimbCount THEN FALSE
  ELSE IF x[i] # y[i] THEN x[i] < y[i]
  ELSE LessFrom(x, y, i + 1)

U64Less(x, y) == LessFrom(x, y, 1)

\* |x| of x read as a two's complement signed value (noise is signed).
Magnitude(x) == IF x[1] >= LimbBase \div 2 THEN WrappingNeg(x) ELSE x

\* ------------------------------------------------------------------------
\* Scheme parameters and constants of the host (main.rs of the host)
\* ------------------------------------------------------------------------

small_lwe_dimension == 742

glwe_dimension == 1

polynomial_size == 2048

pbs_base_log == 23

pbs_level == 1

\* let message_modulus = 1u64 << 4;
message_modulus == Shl(FromNat(1), 4)

\* let input_message = 3u64;
input_message == FromNat(3)

\* let delta = (1_u64 << 63) / message_modulus;
delta == DivPow2(Shl(FromNat(1), 63), message_modulus)

\* SignedDecomposer::new(DecompositionBaseLog(5), DecompositionLevelCount(1))
signed_decomposer == [base_log |-> 5, level_count |-> 1]

\* Cleartext(2)
cleartext_multiplier == 2

\* Faulty variant: the host expects another product.
expected_result_other == FromNat(7)

\* The value the host asserts its decoded result against: assert_eq!(6, ..).
expected_result == FromNat(6)

\* ------------------------------------------------------------------------
\* Constants of the guest (main.rs of the guest)
\* ------------------------------------------------------------------------

guest_message_modulus == Shl(FromNat(1), 4)

guest_delta == DivPow2(Shl(FromNat(1), 63), guest_message_modulus)

\* Faulty variant: a decomposer that keeps one bit fewer.
guest_signed_decomposer_coarse == [base_log |-> 4, level_count |-> 1]

\* SignedDecomposer::new(DecompositionBaseLog(5), DecompositionLevelCount(1))
guest_signed_decomposer == [base_log |-> 5, level_count |-> 1]

\* ------------------------------------------------------------------------
\* The homomorphic-encryption library, at the interface the code uses.
\* A ciphertext carries its size, the key it was produced under and its
\* phase (body minus mask.key), which is the encoded message plus noise.
\* ------------------------------------------------------------------------

\* SignedDecomposer::closest_representable: round to the
\* base_log * level_count most significant bits, ties upward, wrapping.
closest_representable(decomposer, input) ==
  LET non_rep_bit_count == ScalarBits - decomposer.level_count * decomposer.base_log
      shift == non_rep_bit_count - 1
      res   == WrappingAdd(Shr(input, shift), FromNat(1))
  IN  Shl(BitAnd(res, WrappingNeg(FromNat(2))), shift)

\* LweSecretKey::generate_new_binary
generate_new_binary_lwe(id, dimension) ==
  [kind |-> "LweSecretKey", id |-> id, lwe_dimension |-> dimension]

\* GlweSecretKey::generate_new_binary
generate_new_binary_glwe(id, dimension, poly_size) ==
  [kind |-> "GlweSecretKey", id |-> id, glwe_dimension |-> dimension,
   polynomial_size |-> poly_size]

\* GlweSecretKey::into_lwe_secret_key: the same coefficients read as an LWE key.
into_lwe_secret_key(sk) ==
  [kind |-> "LweSecretKey", id |-> sk.id,
   lwe_dimension |-> sk.glwe_dimension * sk.polynomial_size]

\* par_allocate_and_generate_new_lwe_bootstrap_key
allocate_and_generate_new_lwe_bootstrap_key(input_sk, output_sk, base_log, level) ==
  [kind |-> "LweBootstrapKey", input_key |-> input_sk.id, output_key |-> output_sk.id,
   input_lwe_dimension |-> input_sk.lwe_dimension,
   glwe_size |-> output_sk.glwe_dimension + 1,
   polynomial_size |-> output_sk.polynomial_size,
   decomposition_base_log |-> base_log, decomposition_level_count |-> level]

\* FourierLweBootstrapKey::new + convert_standard_lwe_bootstrap_key_to_fourier
convert_standard_lwe_bootstrap_key_to_fourier(bsk) ==
  [bsk EXCEPT !.kind = "FourierLweBootstrapKey"]

\* allocate_and_encrypt_new_lwe_ciphertext
allocate_and_encrypt_new_lwe_ciphertext(sk, plaintext, noise) ==
  [kind |-> "LweCiphertext", lwe_size |-> sk.lwe_dimension + 1, key |-> sk.id,
   phase |-> WrappingAdd(plaintext, noise)]

\* lwe_ciphertext_cleartext_mul: every coefficient times the cleartext.
lwe_ciphertext_cleartext_mul(ct, cleartext) ==
  [ct EXCEPT !.phase = WrappingMulNat(cleartext, ct.phase)]

\* decrypt_lwe_ciphertext asserts that the ciphertext and the key have the
\* same LWE dimension before it computes the phase.
decrypt_dimension_ok(sk, ct) == ct.lwe_size - 1 = sk.lwe_dimension

\* A phase computed with another key of the right dimension is unrelated to
\* the message: any of these values.
WrongKeyPlaintexts == {U64Zero, Shl(FromNat(6), 59), Shl(FromNat(21), 59)}

\* decrypt_lwe_ciphertext: the plaintexts the call can return.
decrypt_lwe_ciphertext(sk, ct) ==
  IF ct.key = sk.id THEN {ct.phase} ELSE WrongKeyPlaintexts

\* Faulty variant: another function in the look-up table.
lut_function_triple(x) == 3 * x

\* The function of the look-up table: |x: u64| 2 * x
lut_function(x) == 2 * x

\* generate_programmable_bootstrap_glwe_lut: entry i holds f(i) * delta.
generate_programmable_bootstrap_glwe_lut(poly_size, glwe_size, modulus, scale) ==
  [kind |-> "GlweCiphertext", glwe_size |-> glwe_size, polynomial_size |-> poly_size,
   scale |-> scale,
   lut |-> [i \in 1..modulus |-> WrappingMulNat(lut_function(i - 1), scale)]]

\* programmable_bootstrap_lwe_ciphertext: the input phase is rounded to a
\* table index (the padding bit selects the negated half of the table), and
\* the output is a fresh ciphertext of the table entry under the output key.
programmable_bootstrap_lwe_ciphertext(ct, out_size, acc, fbsk, noise) ==
  LET modulus == Len(acc.lut)
      index   == ToNat(Shr(WrappingAdd(ct.phase, Shr(acc.scale, 1)),
                           TrailingZeros(acc.scale)))
      entry   == IF index < modulus THEN acc.lut[index + 1]
                 ELSE WrappingNeg(acc.lut[index - modulus + 1])
  IN  [kind |-> "LweCiphertext", lwe_size |-> out_size,
       key |-> IF ct.key = fbsk.input_key THEN fbsk.output_key ELSE "none",
       phase |-> WrappingAdd(entry, noise)]

\* ------------------------------------------------------------------------
\* bincode: a buffer is the little-endian bytes of a u64, or the u64 length
\* prefix of a container followed by the container's contents.
\* ------------------------------------------------------------------------

ByteBase == 2 ^ 8

\* u64::to_le_bytes
to_le_bytes(x) ==
  [k \in 1..8 |-> LET w == x[LimbCount - ((k - 1) \div 2)]
                  IN  IF k % 2 = 1 THEN w % ByteBase ELSE w \div ByteBase]

\* u64::from_le_bytes
from_le_bytes(b) ==
  [i \in Idx |-> LET k == 2 * (LimbCount - i) + 1
                 IN  b[k] + ByteBase * b[k + 1]]

\* Number of scalars in the container of a value (its serialized length prefix).
container_len(v) ==
  CASE v.kind = "LweCiphertext"   -> v.lwe_size
    [] v.kind = "LweSecretKey"    -> v.lwe_dimension
    [] v.kind = "GlweCiphertext"  -> v.glwe_size * v.polynomial_size
    [] v.kind = "LweBootstrapKey" ->
         v.input_lwe_dimension * v.decomposition_level_count
           * v.glwe_size * v.glwe_size * v.polynomial_size
    [] v.kind = "FourierLweBootstrapKey" ->
         v.input_lwe_dimension * v.decomposition_level_count
           * v.glwe_size * v.glwe_size * (v.polynomial_size \div 2)
    [] OTHER -> 0

\* The u64 scalars a container holds (one coefficient stands for the body of
\* a ciphertext; a key's coefficients are named by the key's id).
scalars(v) ==
  CASE v.kind = "LweCiphertext"  -> <<v.phase>>
    [] v.kind = "GlweCiphertext" -> v.lut
    [] OTHER -> <<>>

\* A container with its scalars replaced.
with_scalars(v, s) ==
  CASE v.kind = "LweCiphertext"  -> [v EXCEPT !.phase = s[1]]
    [] v.kind = "GlweCiphertext" -> [v EXCEPT !.lut = s]
    [] OTHER -> v

\* The fields of a container other than its scalars.
layout(v) == with_scalars(v, [i \in 1..Len(scalars(v)) |-> U64Zero])

\* The scalars of s one after the other, each as 8 little-endian bytes.
scalar_bytes(s) ==
  [k \in 1..(8 * Len(s)) |-> to_le_bytes(s[((k - 1) \div 8) + 1])[((k - 1) % 8) + 1]]

\* The n scalars that start at byte `from` of b.
scalars_at(b, from, n) ==
  [i \in 1..n |-> from_le_bytes(SubSeq(b, from + 8 * (i - 1), from + 8 * i - 1))]

\* Faulty variant: scalars written most significant byte first.
serialize_big_endian(ty, v) ==
  LET rev(b) == [k \in 1..Len(b) |-> b[Len(b) + 1 - k]]
  IN  IF ty = "u64"
      THEN [bytes |-> rev(to_le_bytes(v)), payload |-> <<>>]
      ELSE [bytes |-> to_le_bytes(FromNat(container_len(v)))
                        \o scalar_bytes([i \in 1..Len(scalars(v)) |->
                                           from_le_bytes(rev(to_le_bytes(scalars(v)[i])))]),
            payload |-> <<layout(v)>>]

\* bincode::serialize(&v) for a value of type ty
serialize(ty, v) ==
  IF ty = "u64"
  THEN [bytes |-> to_le_bytes(v), payload |-> <<>>]
  ELSE [bytes |-> to_le_bytes(FromNat(container_len(v))) \o scalar_bytes(scalars(v)),
        payload |-> <<layout(v)>>]

NoValue == [kind |-> "none"]

\* bincode::deserialize::<ty>(&buf): trailing bytes are not an error, a short
\* buffer or contents of another type are.
deserialize(ty, buf) ==
  IF Len(buf.bytes) < 8 THEN [ok |-> FALSE, val |-> NoValue]
  ELSE IF ty = "u64" THEN [ok |-> TRUE, val |-> from_le_bytes(SubSeq(buf.bytes, 1, 8))]
  ELSE IF /\ Len(buf.payload) = 1
          /\ buf.payload[1].kind = ty
          /\ FromNat(container_len(buf.payload[1])) = from_le_bytes(SubSeq(buf.bytes, 1, 8))
          /\ Len(buf.bytes) >= 8 + 8 * Len(scalars(buf.payload[1]))
       THEN [ok |-> TRUE,
             val |-> with_scalars(buf.payload[1],
                                  scalars_at(buf.bytes, 8 + 1, Len(scalars(buf.payload[1]))))]
  ELSE [ok |-> FALSE, val |-> NoValue]

\* ------------------------------------------------------------------------
\* The zero-knowledge virtual machine, at the interface the code uses
\* ------------------------------------------------------------------------

\* methods::HELLO_GUEST_ELF: the guest program image (guest main.rs).
HELLO_GUEST_ELF == "hello_guest"

\* The image ID risc0-build derives from an ELF.
image_id_of(elf) == <<"image_id", elf>>

\* methods::HELLO_GUEST_ID
HELLO_GUEST_ID == image_id_of(HELLO_GUEST_ELF)

\* Identifiers of other program images.
OtherImageIds == {image_id_of("other_guest")}

\* env::commit(&v): the journal entry of a value.
journal_entry(v) == [kind |-> v.kind, value |-> v]

\* receipt.journal.decode::<ty>()
journal_decode(jrnl, ty) ==
  IF Len(jrnl) = 1 /\ jrnl[1].kind = ty
  THEN [ok |-> TRUE, val |-> jrnl[1].value]
  ELSE [ok |-> FALSE, val |-> NoValue]

\* The receipt of a run of image `elf` with journal `jrnl`; a seal that is
\* not sound proves nothing.
make_receipt(elf, jrnl, sound) ==
  [kind |-> "receipt", journal |-> jrnl,
   seal |-> IF sound THEN [image_id |-> image_id_of(elf), journal |-> jrnl]
            ELSE [image_id |-> <<"image_id", "none">>, journal |-> <<>>]]

\* receipt.verify(image_id)
verify(rcpt, image_id) ==
  /\ rcpt.kind = "receipt"
  /\ rcpt.seal.image_id = image_id
  /\ rcpt.seal.journal = rcpt.journal

\* ------------------------------------------------------------------------
\* Inputs: the noise the random generators draw
\* ------------------------------------------------------------------------

\* How far around each rounding threshold the noise values are sampled.
NoiseSpread == 1

\* Signed values 0, +-k, +-(t - k), +-(t + k) for k up to NoiseSpread.
NoiseAround(t) ==
  UNION {{FromNat(k), WrappingNeg(FromNat(k)),
          WrappingSub(t, FromNat(k)), WrappingNeg(WrappingSub(t, FromNat(k))),
          WrappingAdd(t, FromNat(k)), WrappingNeg(WrappingAdd(t, FromNat(k)))}
         : k \in 0..NoiseSpread}

\* Encryption noise: around a quarter of delta, where the doubled noise of
\* the cleartext path crosses half of delta.
LweNoiseChoices == NoiseAround(Shr(delta, 2))

\* Noise of the bootstrap output: around half of delta.
PbsNoiseChoices == NoiseAround(Shr(delta, 1))

\* ------------------------------------------------------------------------
\* State
\* ------------------------------------------------------------------------

VARIABLES
  hpc,                                \* host: position in main
  host_error,                         \* host: how main failed ("" if it has not)
  keys,                               \* host: the secret keys and bootstrapping keys
  lwe_noise,                          \* host: noise drawn by the encryption
  lwe_ciphertext_in,                  \* host
  cleartext_multiplication_plaintext, \* host
  cleartext_multiplication_result,    \* host
  pbs_noise,                          \* host: noise of the bootstrap output
  accumulator,                        \* host
  pbs_multiplication_ct,              \* host
  input_data,                         \* host: input_data, input_data_2 .. input_data_7
  env,                                \* host: buffers written to the ExecutorEnv builder
  receipt,                            \* host
  output,                             \* host: the journal decoded
  printed,                            \* host: public outputs printed
  steps,                              \* host: the positions of main executed, in order
  gpc,                                \* guest: position in main
  channel,                            \* guest: buffers not yet read from the environment
  serialized,                         \* guest: serialized_* in the order read
  deserialized,                       \* guest: the values deserialized, in order
  pbs_multiplication_plaintext,       \* guest
  pbs_multiplication_result,          \* guest
  journal,                            \* guest: values committed
  guest_panic                         \* guest: panic message (<<>> if none)

hostVars ==
  <<hpc, host_error, keys, lwe_noise, lwe_ciphertext_in,
    cleartext_multiplication_plaintext, cleartext_multiplication_result,
    pbs_noise, accumulator, pbs_multiplication_ct, input_data, env, receipt,
    output, printed, steps>>

guestVars ==
  <<gpc, channel, serialized, deserialized, pbs_multiplication_plaintext,
    pbs_multiplication_result, journal, guest_panic>>

vars == <<hostVars, guestVars>>

NoKeys ==
  [small_lwe_sk |-> NoValue, glwe_sk |-> NoValue, big_lwe_sk |-> NoValue,
   std_bootstrapping_key |-> NoValue, fourier_bsk |-> NoValue]

HostIdle ==
  /\ host_error = ""
  /\ keys = NoKeys
  /\ lwe_noise = U64Zero
  /\ lwe_ciphertext_in = NoValue
  /\ cleartext_multiplication_plaintext = U64Zero
  /\ cleartext_multiplication_result = U64Zero
  /\ pbs_noise = U64Zero
  /\ accumulator = NoValue
  /\ pbs_multiplication_ct = NoValue
  /\ input_data = <<>>
  /\ env = <<>>
  /\ receipt = NoValue
  /\ output = NoValue
  /\ printed = <<>>
  /\ steps = <<>>

GuestFresh ==
  /\ serialized = <<>>
  /\ deserialized = <<>>
  /\ pbs_multiplication_plaintext = U64Zero
  /\ pbs_multiplication_result = U64Zero
  /\ journal = <<>>
  /\ guest_panic = <<>>

\* The host process at the start of main; the guest has not been started.
Init ==
  /\ hpc = "generate_keys"
  /\ HostIdle
  /\ gpc = "idle"
  /\ channel = <<>>
  /\ GuestFresh

\* ------------------------------------------------------------------------
\* Host: main
\* ------------------------------------------------------------------------

\* Round and remove the encoding:
\* signed_decomposer.closest_representable(plaintext.0) / delta
host_decode(plaintext) ==
  DivPow2(closest_representable(signed_decomposer, plaintext), delta)

\* Generating keys (secret keys, bootstrapping key, Fourier conversion).
GeneratedKeys ==
  LET small == generate_new_binary_lwe("small_lwe_sk", small_lwe_dimension)
      glwe  == generate_new_binary_glwe("glwe_sk", glwe_dimension, polynomial_size)
      bsk   == allocate_and_generate_new_lwe_bootstrap_key(small, glwe, pbs_base_log,
                                                           pbs_level)
  IN  [small_lwe_sk |-> small, glwe_sk |-> glwe,
       big_lwe_sk |-> into_lwe_secret_key(glwe),
       std_bootstrapping_key |-> bsk,
       fourier_bsk |-> convert_standard_lwe_bootstrap_key_to_fourier(bsk)]

GenerateKeys ==
  /\ hpc = "generate_keys"
  /\ steps' = Append(steps, hpc)
  /\ keys' = GeneratedKeys
  /\ hpc' = "encrypt"
  /\ UNCHANGED <<host_error, lwe_noise, lwe_ciphertext_in,
                 cleartext_multiplication_plaintext, cleartext_multiplication_result,
                 pbs_noise, accumulator, pbs_multiplication_ct, input_data, env,
                 receipt, output, printed, guestVars>>

\* Plaintext(input_message * delta)
plaintext == WrappingMulNat(ToNat(input_message), delta)

\* The source ciphertext: the plaintext encrypted under the small key.
SourceCiphertext(ks, noise) ==
  allocate_and_encrypt_new_lwe_ciphertext(ks.small_lwe_sk, plaintext, noise)

Encrypt ==
  /\ hpc = "encrypt"
  /\ steps' = Append(steps, hpc)
  /\ \E noise \in LweNoiseChoices :
       /\ lwe_noise' = noise
       /\ lwe_ciphertext_in' = SourceCiphertext(keys, noise)
  /\ hpc' = "cleartext_mul"
  /\ UNCHANGED <<host_error, keys, cleartext_multiplication_plaintext,
                 cleartext_multiplication_result, pbs_noise, accumulator,
                 pbs_multiplication_ct, input_data, env, receipt, output, printed,
                 guestVars>>

\* The cleartext multiplication by 2 of the source ciphertext.
cleartext_multiplication_ct(ct) == lwe_ciphertext_cleartext_mul(ct, cleartext_multiplier)

\* Multiply, decrypt under the small key, round and remove the encoding.
CleartextMul ==
  /\ hpc = "cleartext_mul"
  /\ steps' = Append(steps, hpc)
  /\ LET ct == cleartext_multiplication_ct(lwe_ciphertext_in)
     IN  IF decrypt_dimension_ok(keys.small_lwe_sk, ct)
         THEN /\ \E pt \in decrypt_lwe_ciphertext(keys.small_lwe_sk, ct) :
                   /\ cleartext_multiplication_plaintext' = pt
                   /\ cleartext_multiplication_result' = host_decode(pt)
              /\ hpc' = "check_result"
              /\ UNCHANGED host_error
         ELSE /\ hpc' = "panicked"
              /\ host_error' = "decrypt"
              /\ UNCHANGED <<cleartext_multiplication_plaintext,
                             cleartext_multiplication_result>>
  /\ UNCHANGED <<keys, lwe_noise, lwe_ciphertext_in, pbs_noise, accumulator,
                 pbs_multiplication_ct, input_data, env, receipt, output, printed,
                 guestVars>>

\* Faulty variant: the host's check of its own result left out.
host_assert_skipped(result) == TRUE

\* assert_eq!(6, cleartext_multiplication_result)
host_assert_ok(result) == expected_result = result

CheckResult ==
  /\ hpc = "check_result"
  /\ steps' = Append(steps, hpc)
  /\ IF host_assert_ok(cleartext_multiplication_result)
     THEN hpc' = "pbs" /\ UNCHANGED host_error
     ELSE hpc' = "panicked" /\ host_error' = "assert_eq"
  /\ UNCHANGED <<keys, lwe_noise, lwe_ciphertext_in,
                 cleartext_multiplication_plaintext, cleartext_multiplication_result,
                 pbs_noise, accumulator, pbs_multiplication_ct, input_data, env,
                 receipt, output, printed, guestVars>>

\* The accumulator of the multiplication by 2.
Accumulator ==
  generate_programmable_bootstrap_glwe_lut(polynomial_size, glwe_dimension + 1,
                                           ToNat(message_modulus), delta)

\* The bootstrap of the source ciphertext into a ciphertext of the big key's size.
PbsCiphertext(ks, ct, noise) ==
  programmable_bootstrap_lwe_ciphertext(ct, ks.big_lwe_sk.lwe_dimension + 1,
                                        Accumulator, ks.fourier_bsk, noise)

ComputePBS ==
  /\ hpc = "pbs"
  /\ steps' = Append(steps, hpc)
  /\ accumulator' = Accumulator
  /\ \E noise \in PbsNoiseChoices :
       /\ pbs_noise' = noise
       /\ pbs_multiplication_ct' = PbsCiphertext(keys, lwe_ciphertext_in, noise)
  /\ hpc' = "serialize"
  /\ UNCHANGED <<host_error, keys, lwe_noise, lwe_ciphertext_in,
                 cleartext_multiplication_plaintext, cleartext_multiplication_result,
                 input_data, env, receipt, output, printed, guestVars>>


\* The artifacts the host serializes, in the order of input_data ..
\* input_data_7: the host variable and its type.
HostArtifacts ==
  <<[name |-> "std_bootstrapping_key",           ty |-> "LweBootstrapKey"],
    [name |-> "fourier_bsk",                     ty |-> "FourierLweBootstrapKey"],
    [name |-> "lwe_ciphertext_in",               ty |-> "LweCiphertext"],
    [name |-> "cleartext_multiplication_result", ty |-> "u64"],
    [name |-> "accumulator",                     ty |-> "GlweCiphertext"],
    [name |-> "pbs_multiplication_ct",           ty |-> "LweCiphertext"],
    [name |-> "big_lwe_sk",                      ty |-> "LweSecretKey"]>>

\* Faulty variant: the last artifact left out of the serialization.
ArtifactCountShort == Len(HostArtifacts) - 1

\* The number of artifacts serialized.
ArtifactCount == Len(HostArtifacts)

\* The artifacts by host variable name.
ArtifactRecord(ks, ct_in, clear_result, acc, pbs_ct) ==
  [std_bootstrapping_key           |-> ks.std_bootstrapping_key,
   fourier_bsk                     |-> ks.fourier_bsk,
   lwe_ciphertext_in               |-> ct_in,
   cleartext_multiplication_result |-> clear_result,
   accumulator                     |-> acc,
   pbs_multiplication_ct           |-> pbs_ct,
   big_lwe_sk                      |-> ks.big_lwe_sk]

\* Faulty variant: the small secret key serialized in place of the large one.
HostValueSmallKey(name) ==
  IF name = "big_lwe_sk" THEN keys.small_lwe_sk
  ELSE ArtifactRecord(keys, lwe_ciphertext_in, cleartext_multiplication_result,
                      accumulator, pbs_multiplication_ct)[name]

\* The value of host variable `name`.
HostValue(name) ==
  ArtifactRecord(keys, lwe_ciphertext_in, cleartext_multiplication_result,
                 accumulator, pbs_multiplication_ct)[name]

\* What the pair of codec calls on one artifact can return: both Ok, or an
\* Err from either (bincode::Result), which `?` returns from main.
CodecOutcomes == {"ok", "serialize_err", "deserialize_err"}

\* let input_data_i = bincode::serialize(&x)?;
\* let result_in_i = bincode::deserialize(&input_data_i)?;
SerializeArtifact ==
  /\ hpc = "serialize"
  /\ steps' = Append(steps, hpc)
  /\ LET a   == HostArtifacts[Len(input_data) + 1]
         buf == serialize(a.ty, HostValue(a.name))
     IN  \E r \in CodecOutcomes :
           IF r = "serialize_err"
           THEN /\ hpc' = "returned_err"
                /\ host_error' = "serialize"
                /\ UNCHANGED input_data
           ELSE IF r = "deserialize_err" \/ ~deserialize(a.ty, buf).ok
           THEN /\ hpc' = "returned_err"
                /\ host_error' = "deserialize"
                /\ UNCHANGED input_data
           ELSE /\ input_data' = Append(input_data, buf)
                /\ hpc' = IF Len(input_data') = ArtifactCount THEN "write" ELSE "serialize"
                /\ UNCHANGED host_error
  /\ UNCHANGED <<keys, lwe_noise, lwe_ciphertext_in,
                 cleartext_multiplication_plaintext, cleartext_multiplication_result,
                 pbs_noise, accumulator, pbs_multiplication_ct, env, receipt, output,
                 printed, guestVars>>

\* Faulty variant: the source and the PBS ciphertext written in each other's place.
WriteOrderSwapped == <<1, 2, 6, 4, 5, 3, 7>>

\* The buffer the i-th .write() of the environment builder takes:
\* input_data, input_data_2, .., input_data_7.
WriteOrder == <<1, 2, 3, 4, 5, 6, 7>>

\* ExecutorEnv::builder().write(&input_data_i).unwrap()
WriteEnv ==
  /\ hpc = "write"
  /\ steps' = Append(steps, hpc)
  /\ \E ok \in BOOLEAN :
       IF ok
       THEN /\ env' = Append(env, input_data[WriteOrder[Len(env) + 1]])
            /\ hpc' = IF Len(env') = Len(WriteOrder) THEN "build" ELSE "write"
            /\ UNCHANGED host_error
       ELSE /\ hpc' = "panicked"
            /\ host_error' = "write"
            /\ UNCHANGED env
  /\ UNCHANGED <<keys, lwe_noise, lwe_ciphertext_in,
                 cleartext_multiplication_plaintext, cleartext_multiplication_result,
                 pbs_noise, accumulator, pbs_multiplication_ct, input_data, receipt,
                 output, printed, guestVars>>

\* .build().unwrap()
BuildEnv ==
  /\ hpc = "build"
  /\ steps' = Append(steps, hpc)
  /\ \E ok \in BOOLEAN :
       IF ok THEN hpc' = "prove" /\ UNCHANGED host_error
       ELSE hpc' = "panicked" /\ host_error' = "build"
  /\ UNCHANGED <<keys, lwe_noise, lwe_ciphertext_in,
                 cleartext_multiplication_plaintext, cleartext_multiplication_result,
                 pbs_noise, accumulator, pbs_multiplication_ct, input_data, env,
                 receipt, output, printed, guestVars>>

\* prover.prove(env, HELLO_GUEST_ELF): the prover starts the guest on the
\* environment's buffers.
StartProve ==
  /\ hpc = "prove"
  /\ steps' = Append(steps, hpc)
  /\ hpc' = "proving"
  /\ gpc = "idle"
  /\ gpc' = "Reading"
  /\ channel' = env
  /\ UNCHANGED <<host_error, keys, lwe_noise, lwe_ciphertext_in,
                 cleartext_multiplication_plaintext, cleartext_multiplication_result,
                 pbs_noise, accumulator, pbs_multiplication_ct, input_data, env,
                 receipt, output, printed, serialized, deserialized,
                 pbs_multiplication_plaintext, pbs_multiplication_result, journal,
                 guest_panic>>

\* What prove() can return once the guest has ended: an error, a receipt,
\* a receipt whose seal does not verify, or one that also carries a journal
\* the guest did not write.
ProverOutcomes == {"error", "receipt", "unsound_receipt", "unsound_empty_journal"}

\* Faulty variant: a failed proof is tried again.
prove_failed_retry == "prove"

\* Where main goes on an Err of prove(): .unwrap() panics.
prove_failed == "panicked"

\* .prove(..).unwrap(); let receipt = prove_info.receipt;
FinishProve ==
  /\ hpc = "proving"
  /\ steps' = Append(steps, hpc)
  /\ gpc \in {"Terminated", "Aborted"}
  /\ \E outcome \in ProverOutcomes :
       IF gpc = "Aborted" \/ outcome = "error"
       THEN /\ hpc' = prove_failed
            /\ host_error' = "prove"
            /\ UNCHANGED receipt
       ELSE /\ receipt' = make_receipt(HELLO_GUEST_ELF,
                                        IF outcome = "unsound_empty_journal" THEN <<>>
                                        ELSE journal,
                                        outcome = "receipt")
            /\ hpc' = "decode"
            /\ UNCHANGED host_error
  /\ UNCHANGED <<keys, lwe_noise, lwe_ciphertext_in,
                 cleartext_multiplication_plaintext, cleartext_multiplication_result,
                 pbs_noise, accumulator, pbs_multiplication_ct, input_data, env,
                 output, printed, guestVars>>

\* let output: LweCiphertextOwned<u64> = receipt.journal.decode().unwrap();
DecodeJournal ==
  /\ hpc = "decode"
  /\ steps' = Append(steps, hpc)
  /\ LET r == journal_decode(receipt.journal, "LweCiphertext")
     IN  IF r.ok
         THEN output' = r.val /\ hpc' = "print" /\ UNCHANGED host_error
         ELSE hpc' = "panicked" /\ host_error' = "decode" /\ UNCHANGED output
  /\ UNCHANGED <<keys, lwe_noise, lwe_ciphertext_in,
                 cleartext_multiplication_plaintext, cleartext_multiplication_result,
                 pbs_noise, accumulator, pbs_multiplication_ct, input_data, env,
                 receipt, printed, guestVars>>

\* println!("... {:?} is a public output from journal ", output);
PrintOutput ==
  /\ hpc = "print"
  /\ steps' = Append(steps, hpc)
  /\ printed' = Append(printed, output)
  /\ hpc' = "verify"
  /\ UNCHANGED <<host_error, keys, lwe_noise, lwe_ciphertext_in,
                 cleartext_multiplication_plaintext, cleartext_multiplication_result,
                 pbs_noise, accumulator, pbs_multiplication_ct, input_data, env,
                 receipt, output, guestVars>>

\* Faulty variant: the identifier of another guest image.
OtherGuestId == image_id_of("other_guest")

\* The identifier the host verifies the receipt against.
HostVerifyId == HELLO_GUEST_ID

\* Faulty variant: the result of the verification ignored.
host_verify_ignored(rcpt) == TRUE

\* receipt.verify(HELLO_GUEST_ID) returns Ok, so .unwrap() does not panic.
host_verify_ok(rcpt) == verify(rcpt, HostVerifyId)

\* receipt.verify(HELLO_GUEST_ID).unwrap(); Ok(())
VerifyReceipt ==
  /\ hpc = "verify"
  /\ steps' = Append(steps, hpc)
  /\ IF host_verify_ok(receipt)
     THEN hpc' = "done" /\ UNCHANGED host_error
     ELSE hpc' = "panicked" /\ host_error' = "verify"
  /\ UNCHANGED <<keys, lwe_noise, lwe_ciphertext_in,
                 cleartext_multiplication_plaintext, cleartext_multiplication_result,
                 pbs_noise, accumulator, pbs_multiplication_ct, input_data, env,
                 receipt, output, printed, guestVars>>

\* ------------------------------------------------------------------------
\* Guest: main
\* ------------------------------------------------------------------------

\* Faulty variant: the third and the sixth buffer taken for each other.
GuestPlanSwapped ==
  <<[context |-> "std_bootstrapping_key",           ty |-> "LweBootstrapKey"],
    [context |-> "fourier_bsk",                     ty |-> "FourierLweBootstrapKey"],
    [context |-> "pbs",                             ty |-> "LweCiphertext"],
    [context |-> "cleartext_multiplication_result", ty |-> "u64"],
    [context |-> "accumulator",                     ty |-> "GlweCiphertext"],
    [context |-> "lwe_ciphertext_in_clear",         ty |-> "LweCiphertext"],
    [context |-> "big_lwe_sk",                      ty |-> "LweSecretKey"]>>

\* The deserializations of the guest in order: the context tag and the type.
GuestPlan ==
  <<[context |-> "std_bootstrapping_key",           ty |-> "LweBootstrapKey"],
    [context |-> "fourier_bsk",                     ty |-> "FourierLweBootstrapKey"],
    [context |-> "lwe_ciphertext_in_clear",         ty |-> "LweCiphertext"],
    [context |-> "cleartext_multiplication_result", ty |-> "u64"],
    [context |-> "accumulator",                     ty |-> "GlweCiphertext"],
    [context |-> "pbs",                             ty |-> "LweCiphertext"],
    [context |-> "big_lwe_sk",                      ty |-> "LweSecretKey"]>>

\* Faulty variant: one env::read() fewer than there are deserializations.
ReadCountShort == Len(GuestPlan) - 1

\* The number of env::read() calls, one per artifact.
ReadCount == Len(GuestPlan)

\* let serialized_x: Vec<u8> = env::read();
GuestRead ==
  /\ gpc = "Reading"
  /\ IF channel = <<>>
     THEN /\ gpc' = "Aborted"
          /\ guest_panic' = <<"read", "end of input">>
          /\ UNCHANGED <<channel, serialized>>
     ELSE /\ serialized' = Append(serialized, Head(channel))
          /\ channel' = Tail(channel)
          /\ gpc' = IF Len(serialized') = ReadCount THEN "Deserializing" ELSE "Reading"
          /\ UNCHANGED guest_panic
  /\ UNCHANGED <<hostVars, deserialized, pbs_multiplication_plaintext,
                 pbs_multiplication_result, journal>>

\* Faulty variant: a panic message that does not name the artifact.
deserialize_panic_unnamed(context) == <<"Failed to deserialize", "input">>

\* panic!("Failed to deserialize {}: {:?}", context, e)
deserialize_panic(context) == <<"Failed to deserialize", context>>

\* let x: T = deserialize_with_context(&serialized_x, "x");
GuestDeserialize ==
  /\ gpc = "Deserializing"
  /\ LET i == Len(deserialized) + 1
         r == deserialize(GuestPlan[i].ty, serialized[i])
     IN  IF r.ok
         THEN /\ deserialized' = Append(deserialized,
                                        [context |-> GuestPlan[i].context, val |-> r.val])
              /\ gpc' = IF i = ReadCount THEN "Verifying" ELSE "Deserializing"
              /\ UNCHANGED guest_panic
         ELSE /\ gpc' = "Aborted"
              /\ guest_panic' = deserialize_panic(GuestPlan[i].context)
              /\ UNCHANGED deserialized
  /\ UNCHANGED <<hostVars, channel, serialized, pbs_multiplication_plaintext,
                 pbs_multiplication_result, journal>>

\* The guest's variable deserialized under context tag `context`.
GuestValue(context) ==
  LET i == CHOOSE j \in 1..ReadCount : GuestPlan[j].context = context
  IN  deserialized[i].val

\* signed_decomposer.closest_representable(plaintext.0) / delta
guest_decode(pt) ==
  DivPow2(closest_representable(guest_signed_decomposer, pt), guest_delta)

\* The key and the ciphertext of the guest's decryption.
GuestDecryptKey == GuestValue("big_lwe_sk")

\* Faulty variant: the source ciphertext decrypted in place of the PBS one.
GuestDecryptSource == GuestValue("lwe_ciphertext_in_clear")

\* &pbs_multiplication_ct
GuestDecryptCiphertext == GuestValue("pbs")

\* The panic of decrypt_lwe_ciphertext on a key of another dimension.
decrypt_panic == <<"Mismatch between LweDimension", "decrypt_lwe_ciphertext">>

\* Decrypt and decode the PBS ciphertext.
GuestDecrypt ==
  /\ gpc = "Verifying"
  /\ IF decrypt_dimension_ok(GuestDecryptKey, GuestDecryptCiphertext)
     THEN /\ \E pt \in decrypt_lwe_ciphertext(GuestDecryptKey, GuestDecryptCiphertext) :
               /\ pbs_multiplication_plaintext' = pt
               /\ pbs_multiplication_result' = guest_decode(pt)
          /\ gpc' = "Asserting"
          /\ UNCHANGED guest_panic
     ELSE /\ gpc' = "Aborted"
          /\ guest_panic' = decrypt_panic
          /\ UNCHANGED <<pbs_multiplication_plaintext, pbs_multiplication_result>>
  /\ UNCHANGED <<hostVars, channel, serialized, deserialized, journal>>

\* Faulty variant: the equality check left out.
guest_assert_skipped(cleartext_result, pbs_result) == TRUE

\* assert_eq!(cleartext_multiplication_result, pbs_multiplication_result)
guest_assert_ok(cleartext_result, pbs_result) == cleartext_result = pbs_result

\* The panic of assert_eq!.
assert_panic == <<"assertion failed", "left == right">>

GuestAssert ==
  /\ gpc = "Asserting"
  /\ IF guest_assert_ok(GuestValue("cleartext_multiplication_result"),
                        pbs_multiplication_result)
     THEN gpc' = "Committing" /\ UNCHANGED guest_panic
     ELSE gpc' = "Aborted" /\ guest_panic' = assert_panic
  /\ UNCHANGED <<hostVars, channel, serialized, deserialized,
                 pbs_multiplication_plaintext, pbs_multiplication_result, journal>>

\* Faulty variant: the source ciphertext committed instead.
GuestCommitSource == GuestValue("lwe_ciphertext_in_clear")

\* The value the guest commits: &pbs_multiplication_ct
GuestCommitValue == GuestValue("pbs")

\* env::commit(&pbs_multiplication_ct)
GuestCommit ==
  /\ gpc = "Committing"
  /\ journal' = Append(journal, journal_entry(GuestCommitValue))
  /\ gpc' = "Committed"
  /\ UNCHANGED <<hostVars, channel, serialized, deserialized,
                 pbs_multiplication_plaintext, pbs_multiplication_result, guest_panic>>

\* main returns.
GuestExit ==
  /\ gpc = "Committed"
  /\ gpc' = "Terminated"
  /\ UNCHANGED <<hostVars, channel, serialized, deserialized,
                 pbs_multiplication_plaintext, pbs_multiplication_result, journal,
                 guest_panic>>

GuestNext ==
  \/ GuestRead
  \/ GuestDeserialize
  \/ GuestDecrypt
  \/ GuestAssert
  \/ GuestCommit
  \/ GuestExit

Next ==
  \/ GenerateKeys
  \/ Encrypt
  \/ CleartextMul
  \/ CheckResult
  \/ ComputePBS
  \/ SerializeArtifact
  \/ WriteEnv
  \/ BuildEnv
  \/ StartProve
  \/ FinishProve
  \/ DecodeJournal
  \/ PrintOutput
  \/ VerifyReceipt
  \/ GuestRead
  \/ GuestDeserialize
  \/ GuestDecrypt
  \/ GuestAssert
  \/ GuestCommit
  \/ GuestExit

\* A run of the host, which runs the guest inside the prover.
Spec == Init /\ [][Next]_vars

\* A run that is not halted from outside: main is one thread whose calls block
\* until they return, and the prover runs the guest to its end, so whenever
\* a step is possible one is taken.
SpecLive == Spec /\ WF_vars(Next)

\* ------------------------------------------------------------------------
\* The guest on its own: the program reads whatever the environment holds.
\* ------------------------------------------------------------------------

\* Largest substituted cleartext-multiplication result.
MaxCleartext == 8

\* The 7 buffers a host run with no encryption noise puts in the
\* environment, for a given cleartext result and bootstrap noise.
HonestInput(clear_result, noise) ==
  LET ks  == GeneratedKeys
      ct  == SourceCiphertext(ks, U64Zero)
      rec == ArtifactRecord(ks, ct, clear_result, Accumulator, PbsCiphertext(ks, ct, noise))
  IN  [i \in 1..Len(WriteOrder) |->
         LET a == HostArtifacts[WriteOrder[i]] IN serialize(a.ty, rec[a.name])]

CanonicalInput == HonestInput(expected_result, U64Zero)

\* Every order of the 7 buffers.
PermutedInputs ==
  {[i \in 1..ArtifactCount |-> CanonicalInput[p[i]]] : p \in Permutations(1..ArtifactCount)}

\* The cleartext result substituted, for every bootstrap noise.
SubstitutedInputs ==
  {HonestInput(FromNat(c), n) : c \in 0..MaxCleartext, n \in PbsNoiseChoices}

\* A buffer cut short.
truncated(buf) == [bytes |-> SubSeq(buf.bytes, 1, 4), payload |-> <<>>]

\* One buffer cut short.
TruncatedInputs ==
  {[CanonicalInput EXCEPT ![k] = truncated(CanonicalInput[k])] : k \in 1..ArtifactCount}

\* Another secret key of the right dimension in place of the large one.
OtherKeyInputs ==
  {[CanonicalInput EXCEPT ![ArtifactCount] =
      serialize("LweSecretKey",
                generate_new_binary_lwe("other_sk", GeneratedKeys.big_lwe_sk.lwe_dimension))]}

\* How far around each rounding threshold the ciphertext bodies are sampled.
PhaseSpread == 1

\* Half the step of the guest's rounding.
HalfStepBits ==
  ScalarBits - guest_signed_decomposer.base_log * guest_signed_decomposer.level_count - 1

\* Bodies at and around every multiple of half the rounding step: the
\* representable values and the ties between them, over the whole of u64.
PhaseChoices ==
  UNION {{WrappingAdd(Shl(FromNat(k), HalfStepBits), FromNat(d)),
          WrappingSub(Shl(FromNat(k), HalfStepBits), FromNat(d))}
         : k \in 0..(2 ^ (ScalarBits - HalfStepBits) - 1), d \in 0..PhaseSpread}

\* Any ciphertext under the large key in place of the PBS ciphertext.
AnyPhaseInputs ==
  {[CanonicalInput EXCEPT ![6] =
      serialize("LweCiphertext",
                allocate_and_encrypt_new_lwe_ciphertext(GeneratedKeys.big_lwe_sk, p, U64Zero))]
   : p \in PhaseChoices}

\* The positions of the buffers the guest deserializes and does not use:
\* std_bootstrapping_key, fourier_bsk, lwe_ciphertext_in_clear, accumulator.
UnusedPositions == {1, 2, 3, 5}

\* Another valid value of the type of each unused position: bootstrapping
\* keys of another small key, a ciphertext of the large key's size, and an
\* accumulator of another scale.
OtherArtifact(i) ==
  LET ks  == GeneratedKeys
      bsk == allocate_and_generate_new_lwe_bootstrap_key(
               generate_new_binary_lwe("other_small_sk", small_lwe_dimension),
               ks.glwe_sk, pbs_base_log, pbs_level)
  IN  CASE i = 1 -> bsk
        [] i = 2 -> convert_standard_lwe_bootstrap_key_to_fourier(bsk)
        [] i = 3 -> PbsCiphertext(ks, SourceCiphertext(ks, U64Zero), U64Zero)
        [] i = 5 -> generate_programmable_bootstrap_glwe_lut(
                      polynomial_size, glwe_dimension + 1, ToNat(message_modulus),
                      Shr(delta, 1))

\* Inputs that keep the cleartext result, the PBS ciphertext and the secret
\* key of an input and replace some of the unused buffers.
VariedInputs ==
  {[i \in 1..ArtifactCount |->
      IF i \in S THEN serialize(HostArtifacts[i].ty, OtherArtifact(i)) ELSE base[i]]
   : base \in SubstitutedInputs \cup OtherKeyInputs,
     S \in SUBSET UnusedPositions \ {{}}}

GuestInputs ==
  PermutedInputs \cup SubstitutedInputs \cup TruncatedInputs \cup OtherKeyInputs
    \cup AnyPhaseInputs \cup VariedInputs

InitGuest ==
  /\ hpc = "no_host"
  /\ HostIdle
  /\ gpc = "Reading"
  /\ channel \in GuestInputs
  /\ GuestFresh

\* A run of the guest program on any of the inputs.
SpecGuest == InitGuest /\ [][GuestNext]_vars

\* ------------------------------------------------------------------------
\* Properties
\* ------------------------------------------------------------------------

\* The canonical order of the channel: each artifact with the host variable
\* that holds it, the guest's context tag for it, and its type.
CanonicalOrder ==
  <<[artifact |-> "standard bootstrapping key", host |-> "std_bootstrapping_key",
     guest |-> "std_bootstrapping_key", ty |-> "LweBootstrapKey"],
    [artifact |-> "Fourier bootstrapping key", host |-> "fourier_bsk",
     guest |-> "fourier_bsk", ty |-> "FourierLweBootstrapKey"],
    [artifact |-> "source LWE ciphertext", host |-> "lwe_ciphertext_in",
     guest |-> "lwe_ciphertext_in_clear", ty |-> "LweCiphertext"],
    [artifact |-> "cleartext-multiplication decoded result",
     host |-> "cleartext_multiplication_result",
     guest |-> "cleartext_multiplication_result", ty |-> "u64"],
    [artifact |-> "accumulator", host |-> "accumulator",
     guest |-> "accumulator", ty |-> "GlweCiphertext"],
    [artifact |-> "PBS-result ciphertext", host |-> "pbs_multiplication_ct",
     guest |-> "pbs", ty |-> "LweCiphertext"],
    [artifact |-> "large secret key", host |-> "big_lwe_sk",
     guest |-> "big_lwe_sk", ty |-> "LweSecretKey"]>>

\* The whole input of the guest run: what it has read and what is left.
GuestInput == serialized \o channel

\* The artifact the channel carries at position i, read as the canonical type.
ReceivedAt(i) == deserialize(CanonicalOrder[i].ty, serialized[i]).val

\* The guest panicked in deserialize_with_context.
DeserializeFailed ==
  gpc = "Aborted" /\ Len(guest_panic) = 2 /\ guest_panic[1] = "Failed to deserialize"

\* C1: at every channel position i in 1..7 the host writes the i-th artifact
\* of the canonical order, the guest's i-th read returns that buffer, and the
\* guest deserializes it as that artifact (same type, same value), without a
\* deserialization failure.
C1_ChannelOrder ==
  /\ \A i \in 1..Len(env) :
       env[i] = serialize(CanonicalOrder[i].ty, HostValue(CanonicalOrder[i].host))
  /\ \A i \in 1..Len(serialized) : serialized[i] = env[i]
  /\ \A i \in 1..Len(deserialized) :
       /\ deserialized[i].context = CanonicalOrder[i].guest
       /\ deserialized[i].val = HostValue(CanonicalOrder[i].host)
  /\ ~DeserializeFailed

C1_Witness ==
  /\ hpc = "proving"
  /\ Len(env) = 7
  /\ Len(deserialized) = 7
  /\ gpc = "Verifying"

\* The guest has decrypted and decoded the PBS ciphertext.
GuestDecoded ==
  \/ gpc \in {"Asserting", "Committing", "Committed", "Terminated"}
  \/ gpc = "Aborted" /\ guest_panic = assert_panic

\* The integer decoded from the PBS ciphertext equals the cleartext integer
\* received at position 4.
ResultsEqual ==
  /\ pbs_multiplication_plaintext \in decrypt_lwe_ciphertext(ReceivedAt(7), ReceivedAt(6))
  /\ host_decode(pbs_multiplication_plaintext) = ReceivedAt(4)

\* C2: the guest passes the equality check or commits only if the integer
\* decoded from the PBS ciphertext under the large secret key equals the
\* cleartext integer received; when the two differ the guest aborts at the
\* equality assertion and the journal stays empty.
C2_CommitOnlyIfEqual ==
  /\ (gpc \in {"Committing", "Committed", "Terminated"} \/ journal # <<>>) => ResultsEqual
  /\ (GuestDecoded /\ ~ResultsEqual) =>
       /\ journal = <<>>
       /\ gpc \in {"Asserting", "Aborted"}
       /\ gpc = "Aborted" => guest_panic = assert_panic

\* The cleartext result replaced by 7 while the PBS ciphertext decodes to 6.
C2_Witness ==
  /\ gpc = "Aborted"
  /\ guest_panic = assert_panic
  /\ ReceivedAt(4) = FromNat(7)
  /\ host_decode(pbs_multiplication_plaintext) = FromNat(6)
  /\ journal = <<>>

\* C3: the journal never holds more than one entry; a guest run that passed
\* the equality check and ended has committed exactly once, and the entry is
\* the PBS ciphertext received at channel position 6.
C3_CommitOncePbs ==
  /\ Len(journal) <= 1
  /\ gpc \in {"Committed", "Terminated"} => Len(journal) = 1
  /\ journal # <<>> =>
       /\ gpc \in {"Committed", "Terminated"}
       /\ journal[1].kind = "LweCiphertext"
       /\ journal[1].value = ReceivedAt(6)

C3_Witness ==
  /\ gpc = "Terminated"
  /\ Len(journal) = 1
  /\ journal[1].value = ReceivedAt(6)

\* Buffer i does not deserialize as the type the guest expects at position i.
FailsAt(i) == ~deserialize(CanonicalOrder[i].ty, serialized[i]).ok

\* C4: when one of the 7 buffers fails to deserialize, the guest gets no
\* further than the first failing buffer, its panic message names that
\* artifact, and the journal is empty in every state of the run.
C4_DeserializeFailureFatal ==
  (Len(serialized) = 7 /\ \E i \in 1..7 : FailsAt(i)) =>
    LET f == CHOOSE i \in 1..7 : FailsAt(i) /\ \A j \in 1..(i - 1) : ~FailsAt(j)
    IN  /\ journal = <<>>
        /\ gpc \in {"Deserializing", "Aborted"}
        /\ Len(deserialized) < f
        /\ gpc = "Aborted" =>
             guest_panic = <<"Failed to deserialize", CanonicalOrder[f].guest>>

\* A buffer cut short made the guest abort.
C4_Witness ==
  /\ DeserializeFailed
  /\ \E k \in 1..7 : Len(serialized[k].bytes) < 8 /\ guest_panic[2] = CanonicalOrder[k].guest
  /\ journal = <<>>

\* The input is the 7 honest buffers in an order other than the canonical one.
NonCanonicalPermutation ==
  GuestInput \in PermutedInputs /\ GuestInput # CanonicalInput

IsSecretKeyBuffer(buf) ==
  Len(buf.payload) = 1 /\ buf.payload[1].kind \in {"LweSecretKey", "GlweSecretKey"}

\* C6 as stated: no buffer written to the guest channel holds a secret key,
\* small or large.
C6_Original == \A i \in 1..Len(env) : ~IsSecretKeyBuffer(env[i])

\* C6 amended: the small secret key is never written to the guest channel;
\* the large secret key is written to it, as the 7th buffer and only there.
C6_OnlyLargeKeyAtSeven ==
  /\ \A i \in 1..Len(env) :
       IsSecretKeyBuffer(env[i]) =>
         /\ i = 7
         /\ env[i].payload[1] = keys.big_lwe_sk
         /\ env[i].payload[1].id # keys.small_lwe_sk.id
  /\ Len(env) = 7 => IsSecretKeyBuffer(env[7])

C6_Witness ==
  /\ Len(env) = 7
  /\ IsSecretKeyBuffer(env[7])
  /\ env[7].payload[1] = keys.big_lwe_sk

\* C7: when the host run ends successfully, the ciphertext decoded from the
\* journal is the PBS ciphertext the host wrote at channel position 6, and
\* it decrypts under the large secret key, rounded and divided by delta, to 6.
C7_OutputDecryptsToSix ==
  hpc = "done" =>
    /\ output = deserialize("LweCiphertext", env[6]).val
    /\ output = pbs_multiplication_ct
    /\ decrypt_dimension_ok(keys.big_lwe_sk, output)
    /\ \A pt \in decrypt_lwe_ciphertext(keys.big_lwe_sk, output) :
         host_decode(pt) = FromNat(6)

C7_Witness ==
  /\ hpc = "done"
  /\ pbs_noise # U64Zero
  /\ output = deserialize("LweCiphertext", env[6]).val

\* C8: a run in which the verifier rejects the receipt never ends
\* successfully: once past the verification it has panicked there.
C8_RejectedReceiptAborts ==
  (receipt # NoValue /\ ~verify(receipt, HELLO_GUEST_ID)) =>
    /\ hpc # "done"
    /\ hpc \notin {"decode", "print", "verify"} =>
         (hpc = "panicked" /\ host_error \in {"decode", "verify"})

C8_Witness ==
  /\ receipt # NoValue
  /\ ~verify(receipt, HELLO_GUEST_ID)
  /\ hpc = "panicked"
  /\ host_error = "verify"

\* The receipt's seal proves a run of the guest image with this journal.
GenuineReceipt ==
  /\ receipt # NoValue
  /\ receipt.seal = [image_id |-> image_id_of(HELLO_GUEST_ELF), journal |-> receipt.journal]

\* C9: a genuine receipt of the guest image the host passed to the prover
\* passes the host's verification (the host verifies against that image's
\* identifier), and it fails verification against every other identifier.
C9_VerifiesAgainstProvedImage ==
  GenuineReceipt =>
    /\ ~(hpc = "panicked" /\ host_error = "verify")
    /\ hpc \in {"decode", "print", "verify", "done"}
    /\ \A id \in OtherImageIds : ~verify(receipt, id)

C9_Witness ==
  /\ GenuineReceipt
  /\ hpc = "done"
  /\ \A id \in OtherImageIds : ~verify(receipt, id)

\* The step of the rounding: 2^(64 - 5), of which the 5 most significant
\* bits are multiples.
RoundingStep == Shl(FromNat(1), ScalarBits - 5)

\* A signed noise smaller in magnitude than half the rounding step.
SmallNoise(n) == U64Less(Magnitude(n), Shr(RoundingStep, 1))

\* The host has decoded the cleartext multiplication.
HostDecoded ==
  /\ hpc \notin {"no_host", "generate_keys", "encrypt", "cleartext_mul"}
  /\ host_error # "decrypt"

\* C10: for the input message 3, whenever the noise of the decrypted product
\* (twice the encryption noise) is smaller in magnitude than half the
\* rounding step, the cleartext path decodes to 6; and whenever the noise of
\* the bootstrap output is, the PBS path decodes to 6.
C10_BothPathsDecodeSix ==
  /\ (HostDecoded /\ SmallNoise(lwe_noise) /\ SmallNoise(WrappingMulNat(2, lwe_noise)))
       => cleartext_multiplication_result = FromNat(6)
  /\ (GuestDecoded /\ SmallNoise(pbs_noise))
       => pbs_multiplication_result = FromNat(6)

\* Both paths decode to 6 with noise just below the threshold.
C10_Witness ==
  /\ GuestDecoded
  /\ lwe_noise = WrappingSub(Shr(RoundingStep, 2), FromNat(1))
  /\ pbs_noise = WrappingSub(Shr(RoundingStep, 1), FromNat(1))
  /\ cleartext_multiplication_result = FromNat(6)
  /\ pbs_multiplication_result = FromNat(6)

\* The i-th serialized buffer deserializes, as the type of the i-th
\* artifact, to the host's value of that artifact.
RoundTrips(i) ==
  deserialize(HostArtifacts[i].ty, input_data[i])
    = [ok |-> TRUE, val |-> HostValue(HostArtifacts[i].name)]

ReceiptVerified == hpc = "done" /\ verify(receipt, HELLO_GUEST_ID)

\* C12: the host has printed the ciphertext decoded from the journal as the
\* public output only if the receipt has already passed verification against
\* the program identifier; the journal content of a receipt that fails
\* verification is never printed.
C12_PrintOnlyAfterVerify ==
  /\ printed # <<>> => ReceiptVerified
  /\ (receipt # NoValue /\ ~verify(receipt, HELLO_GUEST_ID)) => printed = <<>>

\* The journal content of a receipt the verifier rejects has been printed as
\* the public output, and the run then panicked in the verification.
C12_Witness ==
  /\ hpc = "panicked"
  /\ host_error = "verify"
  /\ ~verify(receipt, HELLO_GUEST_ID)
  /\ printed = <<receipt.journal[1].value>>

\* The state of the guest's state machine at a position of its main: the
\* reads and the deserializations are Reading, the decryption, the decoding
\* and the equality check are Verifying.
GuestState(pc) ==
  CASE pc \in {"Reading", "Deserializing"} -> "Reading"
    [] pc \in {"Verifying", "Asserting", "Committing"} -> "Verifying"
    [] OTHER -> pc

\* The moves of the state machine; a panic leaves Reading or Verifying.
GuestStateOrder ==
  {<<"idle", "Reading">>, <<"Reading", "Verifying">>, <<"Verifying", "Committed">>,
   <<"Committed", "Terminated">>, <<"Reading", "Aborted">>, <<"Verifying", "Aborted">>}

\* What holds in every state of a run, for C13.
C13_State ==
  /\ gpc # "idle" =>
       /\ Len(env) = ArtifactCount
       /\ hpc \notin {"generate_keys", "encrypt", "cleartext_mul", "check_result", "pbs",
                      "serialize", "write", "build", "prove"}
       /\ serialized \o channel = env
  /\ (gpc \notin {"idle", "Reading"} /\ guest_panic # <<"read", "end of input">>) =>
       /\ Len(serialized) = ArtifactCount
       /\ channel = <<>>
  /\ gpc \in {"idle", "Reading"} => deserialized = <<>>
  /\ journal # <<>> =>
       /\ gpc \in {"Committed", "Terminated"}
       /\ guest_assert_ok(GuestValue("cleartext_multiplication_result"),
                          pbs_multiplication_result)

\* What holds of every step of a run, for C13.
C13_Step ==
  /\ GuestState(gpc') # GuestState(gpc) =>
       <<GuestState(gpc), GuestState(gpc')>> \in GuestStateOrder
  /\ serialized' # serialized =>
       /\ gpc = "Reading"
       /\ channel # <<>>
       /\ serialized' = Append(serialized, Head(channel))
       /\ channel' = Tail(channel)
  /\ gpc # "idle" => env' = env
  /\ gpc \notin {"idle", "Reading"} => channel' = channel
  /\ journal' # journal => (gpc = "Committing" /\ gpc' = "Committed")

\* C13: the guest goes through Reading, Verifying, Committed, Terminated in
\* that order only; it reads exactly 7 buffers, each once and in order,
\* before it deserializes or verifies anything; it commits only after the
\* equality check; it never reads the channel after leaving Reading; and
\* the host has completed all 7 writes before the prover starts the guest.
C13_GuestStateOrder == []C13_State /\ [][C13_Step]_vars

\* The guest has gone through all four states on the 7 buffers of the host.
C13_Witness ==
  /\ gpc = "Terminated"
  /\ hpc = "proving"
  /\ Len(serialized) = ArtifactCount
  /\ serialized = env
  /\ channel = <<>>
  /\ Len(journal) = 1

\* C14: the guest decodes with the host's decoding function: its delta is
\* the host's, 2^63 / 2^4, its signed decomposer is the host's, base-log 5
\* and level count 1, and the integer it decodes from any decrypted plaintext
\* is the integer the host's decoding gives for that plaintext.
C14_SameDecoding ==
  /\ guest_delta = delta
  /\ delta = Shr(Shl(FromNat(1), 63), 4)
  /\ guest_signed_decomposer = signed_decomposer
  /\ signed_decomposer = [base_log |-> 5, level_count |-> 1]
  /\ GuestDecoded => pbs_multiplication_result = host_decode(pbs_multiplication_plaintext)

\* The guest has decoded a plaintext on the tie below 2^64, which both
\* decodings round up and wrap to 0.
C14_Witness ==
  /\ GuestDecoded
  /\ pbs_multiplication_plaintext = WrappingNeg(Shl(FromNat(1), HalfStepBits))
  /\ pbs_multiplication_result = U64Zero
  /\ host_decode(pbs_multiplication_plaintext) = U64Zero

\* How many times position p of main has been executed.
Executed(p) == Cardinality({i \in 1..Len(steps) : steps[i] = p})

\* The position of main at which each failure is detected.
FailedAt ==
  [decrypt |-> "cleartext_mul", assert_eq |-> "check_result", serialize |-> "serialize",
   deserialize |-> "serialize", write |-> "write", build |-> "build", prove |-> "proving",
   decode |-> "decode", verify |-> "verify"]

\* The host run has failed.
HostFailed == host_error # ""

\* What holds in every state of a run, for C15.
C15_State ==
  /\ Executed("prove") <= 1
  /\ Executed("verify") <= 1
  /\ \A p \in {steps[i] : i \in 1..Len(steps)} :
       Executed(p) <= IF p \in {"serialize", "write"} THEN ArtifactCount ELSE 1
  /\ HostFailed <=> hpc \in {"panicked", "returned_err"}
  /\ HostFailed =>
       /\ host_error \in DOMAIN FailedAt
       /\ steps[Len(steps)] = FailedAt[host_error]
       /\ gpc \in {"idle", "Aborted", "Terminated"}

\* C15: the prover is invoked at most once and the verifier at most once; no
\* step is executed again; a failure of the round-trip deserialization, of
\* an environment write or build, of the proving, of the journal decoding or
\* of the verification ends the run at the step that failed, and no step of
\* the host or of the guest is taken after it.
C15_FailureEndsRun == []C15_State /\ [][~HostFailed]_vars

\* The verification failed after one proof and one verification.
C15_Witness ==
  /\ hpc = "panicked"
  /\ host_error = "verify"
  /\ Executed("prove") = 1
  /\ Executed("verify") = 1
  /\ steps[Len(steps)] = "verify"

\* The host has begun to hand its artifacts to the prover: a buffer is
\* written to the environment, the environment is built, or the prover or
\* the guest has started.
HandedOver ==
  \/ env # <<>>
  \/ hpc \in {"build", "prove", "proving", "decode", "print", "verify", "done"}
  \/ Executed("write") > 0
  \/ Executed("build") > 0
  \/ Executed("prove") > 0
  \/ gpc # "idle"

\* C16: the host writes a buffer to the channel, builds the execution
\* environment or starts proving only if its own decoded
\* cleartext-multiplication result equals 6; when the result is anything
\* else, the host has aborted at its check once past it, with nothing
\* serialized, nothing written to the channel and the guest never started.
C16_EnvOnlyIfSix ==
  /\ HandedOver => cleartext_multiplication_result = FromNat(6)
  /\ (HostDecoded /\ cleartext_multiplication_result # FromNat(6)) =>
       /\ ~HandedOver
       /\ input_data = <<>>
       /\ hpc \in {"check_result", "panicked"}
       /\ hpc = "panicked" => host_error = "assert_eq"

\* The doubled encryption noise carried the product to 7: the host aborted
\* at its check with an empty channel.
C16_Witness ==
  /\ hpc = "panicked"
  /\ host_error = "assert_eq"
  /\ cleartext_multiplication_result = FromNat(7)
  /\ steps[Len(steps)] = "check_result"
  /\ env = <<>>
  /\ gpc = "idle"

\* How a guest run ends, computed from the cleartext result a4, the PBS
\* ciphertext a6, the secret key a7 and the plaintext pt the decryption of
\* a6 under a7 returned, and from nothing else.
EndFrom(a4, a6, a7, pt) ==
  IF ~decrypt_dimension_ok(a7, a6)
  THEN [end |-> "Aborted", panic |-> decrypt_panic, journal |-> <<>>]
  ELSE IF host_decode(pt) # a4
  THEN [end |-> "Aborted", panic |-> assert_panic, journal |-> <<>>]
  ELSE [end |-> "Terminated", panic |-> <<>>, journal |-> <<journal_entry(a6)>>]

\* How the guest run has ended.
GuestEnd == [end |-> gpc, panic |-> guest_panic, journal |-> journal]

\* All 7 buffers have deserialized.
AllDeserialized == Len(deserialized) = ArtifactCount

\* C17: once all 7 buffers have deserialized, whether the guest commits or
\* aborts, how it aborts, and the journal it leaves are determined by the
\* buffers at positions 4, 6 and 7 alone (the plaintext being the decryption
\* of buffer 6 under buffer 7): runs that agree on these three end alike
\* whatever the buffers at positions 1, 2, 3 and 5 hold.
C17_OutcomeFromThree ==
  AllDeserialized =>
    /\ journal \in {<<>>, <<journal_entry(ReceivedAt(6))>>}
    /\ gpc \in {"Terminated", "Aborted"} =>
         /\ decrypt_dimension_ok(ReceivedAt(7), ReceivedAt(6)) =>
              pbs_multiplication_plaintext
                \in decrypt_lwe_ciphertext(ReceivedAt(7), ReceivedAt(6))
         /\ GuestEnd = EndFrom(ReceivedAt(4), ReceivedAt(6), ReceivedAt(7),
                               pbs_multiplication_plaintext)

\* A run that committed on an input whose four unused buffers all differ
\* from those of the honest input with the same buffers 4, 6 and 7.
C17_Witness ==
  /\ gpc = "Terminated"
  /\ AllDeserialized
  /\ \A i \in UnusedPositions :
       /\ serialized[i] # CanonicalInput[i]
       /\ ReceivedAt(i) # deserialize(CanonicalOrder[i].ty, CanonicalInput[i]).val
  /\ \A i \in (1..ArtifactCount) \ UnusedPositions : serialized[i] = CanonicalInput[i]
  /\ journal = <<journal_entry(ReceivedAt(6))>>

\* The positions of main in the order of the source: key building,
\* encryption, the cleartext path (multiplication and check), the PBS path,
\* the serialization of the 7 artifacts, the construction of the environment
\* (7 writes and the build), proving (call and return), the decoding of the
\* journal with its print, and the verification.
HostChain ==
  <<"generate_keys", "encrypt", "cleartext_mul", "check_result", "pbs">>
    \o [i \in 1..7 |-> "serialize"] \o [i \in 1..7 |-> "write"]
    \o <<"build", "prove", "proving", "decode", "print", "verify">>

\* What holds in every state of a run, for C18: the positions executed so
\* far are an initial part of the chain, all of it when the run has ended
\* successfully; the guest runs only while the host is inside prove().
C18_State ==
  /\ Len(steps) <= Len(HostChain)
  /\ steps = SubSeq(HostChain, 1, Len(steps))
  /\ hpc = "done" <=> (steps = HostChain /\ ~HostFailed)
  /\ gpc \notin {"idle", "Terminated", "Aborted"} => hpc = "proving"

\* C18: a host run executes key building, encryption, the cleartext path,
\* the PBS path, serialization, environment construction, proving, journal
\* decoding and verification each once, in that order, one step at a time;
\* and a run in which no step fails eventually ends successfully.
C18_SequentialChain ==
  /\ []C18_State
  /\ [][\/ steps' = steps /\ hpc' = hpc /\ hpc = "proving"
        \/ steps' = Append(steps, hpc) /\ UNCHANGED <<gpc, journal>>
        \/ steps' = Append(steps, hpc) /\ hpc = "prove" /\ gpc = "idle"]_vars
  /\ <>(HostFailed \/ hpc = "done")

\* A run that ended successfully after the whole chain.
C18_Witness ==
  /\ hpc = "done"
  /\ steps = HostChain
  /\ ~HostFailed
  /\ gpc = "Terminated"

====
